---- MODULE Spec2Model ----
(***************************************************************************)
(* A model of the ratchet ETL pipeline: the batched SQL source             *)
(* (GetDataFromSQLQuery and the SQLQueryer stage), the batched SQL sink    *)
(* (SQLInsertData, buildInsertSQL), the stages of the PipelineStage        *)
(* contract and the pipeline run that drives them.                         *)
(***************************************************************************)
EXTENDS Integers, Sequences, FiniteSets, TLC

\* ------------------------------------------------------------------ bounds

\* Longest result set of the query run on its own.
MaxRows == 4

\* Largest batch size tried (the smallest is -1: batching disabled).
MaxBatch == 3

\* Capacity of an inter-stage channel.
ChanCap == 1

\* ------------------------------------------------------------- data values

NoErr == "none"

\* The result columns of the query, in result order.
Columns == <<"id", "name">>

ColumnSet == {Columns[i] : i \in 1..Len(Columns)}

\* A value: its dynamic type and its payload.
IntCell(n) == [t |-> "int", v |-> n]
BytesCell(n) == [t |-> "bytes", v |-> n]
StringCell(n) == [t |-> "string", v |-> n]
NaNCell == [t |-> "nan", v |-> 0]

\* The rows a result set is drawn from: one cell per column. The last row
\* carries a float NaN, a value the JSON encoder rejects.
RowSet ==
    { <<IntCell(1), BytesCell(7)>>,
      <<IntCell(2), BytesCell(8)>>,
      <<NaNCell, BytesCell(9)>> }

RECURSIVE SeqsUpTo(_, _)
SeqsUpTo(S, n) ==
    IF n = 0 THEN {<<>>}
    ELSE LET shorter == SeqsUpTo(S, n - 1)
         IN  shorter \cup {Append(s, x) : s \in {q \in shorter : Len(q) = n - 1}, x \in S}

\* Envelopes (ratchet Data / data.JSON): a JSON array of objects, the error
\* object {"Error": msg}, or a JSON string.
ArrayEnvelope(objs) == [kind |-> "array", objs |-> objs, msg |-> ""]
ErrEnvelope(m) == [kind |-> "error", objs |-> <<>>, msg |-> m]
StringEnvelope(m) == [kind |-> "string", objs |-> <<>>, msg |-> m]

\* ------------------------------------------------------------------- state

VARIABLES
    \* the query: its inputs
    rows,        \* the result set
    batchSize,   \* batchSize argument
    setupErr,    \* "none", "query" (db.Query fails) or "columns" (rows.Columns fails)
    readErrAt,   \* rows.Next() fails after this many rows (-1: never)
    variant,     \* the SQLQueryer in use: "Start" (starters) or "HandleData" (stages)
    \* the streaming goroutine of GetDataFromSQLQuery
    qpc,         \* its position
    rowIdx,      \* rows read so far
    tableData,   \* the batch being accumulated
    dataChan,    \* "unset", "nil", "open" or "closed"
    emitted,     \* every envelope sent on dataChan, in order
    \* the SQLQueryer stage
    spc,         \* its position
    held,        \* the envelope it is forwarding
    \* the channels between the stages: channel c is the output of stage c
    chans,       \* the records buffered in each channel
    sent,        \* every record sent on each channel, in order
    closes,      \* how many times each channel was closed
    \* the kill signal and the run
    killSent,    \* every error delivered on killChan, in order
    runErr,      \* the error the run holds
    aborted,     \* the kill signal carries an error
    runState,    \* "running" or "returned"
    panicked,    \* a goroutine panicked: the program is gone
    \* the stages of the run
    kind,        \* the implementation of each stage
    conc,        \* Concurrency() of the second stage
    walkErr,     \* the directory an SftpReader walks has an unreadable subdirectory
    dpc,         \* each stage driver's position
    todo,        \* what the ProcessData call in flight in each sequential stage has left to do
    goPending,   \* the start record has not been taken yet
    finishes,    \* how many times each stage's Finish was called
    procStarted, \* ProcessData calls begun, per stage
    procReturned,\* ProcessData calls returned, per stage
    recvd,       \* the records the second stage took from its input, in order
    \* the worker pool of a concurrent second stage
    nextSeq,     \* the next sequence number to assign
    workers,     \* the calls in flight: sequence number -> what is left and what was emitted
    buffer,      \* the reordering buffer: sequence number -> emitted sub-sequence
    cursor,      \* the emitter's next expected sequence number
    emitting,    \* the records of the popped entry not yet forwarded
    doneOrder,   \* the sequence numbers of the calls that returned, in the order they did
    \* the sink: the last SQLInsertData call
    insData,     \* the decoded value of its envelope
    insOnDup,    \* onDupKeyUpdate
    insRes,      \* what it did
    \* a sink stage called on its own
    sinkKind,    \* "SQLWriter", "CSVWriter" or "IoWriter"
    sinkOutNil,  \* the stage is the last one: its outputChan is nil
    writeHeader, \* CSVWriter.WriteHeader
    headerWritten, \* CSVWriter.headerWritten
    csvOut,      \* the rows the csv.Writer has written, in order
    sinkCalls,   \* the decoded value of the envelope of every call, in order
    sinkSent,    \* every record the stage sent on outputChan
    sinkCloses,  \* how many times the stage closed outputChan
    sinkKills,   \* every error the stage sent on killChan
    sinkState    \* "open", "finished" or "panicked"

queryIn == <<rows, batchSize, setupErr, readErrAt, variant>>
gorVars == <<qpc, rowIdx, tableData, dataChan, emitted>>
sqVars == <<spc, held>>
chanVars == <<chans, sent, closes>>
runVars == <<killSent, runErr, aborted, runState, panicked>>
stageIn == <<kind, conc, walkErr>>
drvVars == <<dpc, todo, goPending, finishes, procStarted, procReturned, recvd>>
concVars == <<nextSeq, workers, buffer, cursor, emitting, doneOrder>>
insVars == <<insData, insOnDup, insRes>>
sinkIn == <<sinkKind, sinkOutNil, writeHeader>>
sinkVars == <<sinkIn, headerWritten, csvOut, sinkCalls, sinkSent, sinkCloses, sinkKills, sinkState>>

vars == <<queryIn, gorVars, sqVars, chanVars, runVars, stageIn, drvVars, concVars, insVars,
          sinkVars>>

\* ---------------------------------------------------------------- channels

Channels == {1, 2}

\* ch <- r on a buffered channel: blocks while the buffer is full; a send on
\* a closed channel panics.
SendOn(c, r) ==
    /\ IF closes[c] > 0
       THEN /\ panicked' = TRUE
            /\ UNCHANGED <<chans, sent>>
       ELSE /\ Len(chans[c]) < ChanCap
            /\ chans' = [chans EXCEPT ![c] = Append(@, r)]
            /\ sent' = [sent EXCEPT ![c] = Append(@, r)]
            /\ UNCHANGED panicked
    /\ UNCHANGED closes

\* close(ch): closing a closed channel panics.
CloseChan(c) ==
    /\ closes' = [closes EXCEPT ![c] = @ + 1]
    /\ panicked' = (panicked \/ closes[c] >= 1)
    /\ UNCHANGED <<chans, sent>>

FirstErrorOverwritten(cur, e, isAborted) == e

\* The error the run holds once e is delivered: the first one delivered.
FirstError(cur, e, isAborted) == IF isAborted THEN cur ELSE e

\* killChan <- e: the send returns when the run takes the error off the kill
\* signal.
KillDeliver(e) ==
    /\ runState = "running"
    /\ killSent' = Append(killSent, e)
    /\ runErr' = FirstError(runErr, e, aborted)
    /\ aborted' = TRUE
    /\ UNCHANGED runState

\* ------------------------------------------------- GetDataFromSQLQuery

\* Lines 43-53: a []byte value becomes a string, any other value is kept.
ConvertCell(c) == IF c.t = "bytes" THEN StringCell(c.v) ELSE c

\* Lines 42-53: the map of one row, column name to converted value.
Entry(row) ==
    [c \in ColumnSet |->
        ConvertCell(row[CHOOSE i \in 1..Len(Columns) :
            Columns[i] = c /\ \A j \in (i + 1)..Len(Columns) : Columns[j] # c])]

\* NewData: JSON-encodes a value; the encoder fails on a NaN.
NewDataFails(objs) ==
    \E i \in 1..Len(objs) : \E c \in DOMAIN objs[i] : objs[i][c].t = "nan"

\* sendTableData: the envelope that goes on the channel for a batch, the
\* error object when the batch cannot be encoded.
TableEnvelope(objs) ==
    IF NewDataFails(objs) THEN ErrEnvelope("encode") ELSE ArrayEnvelope(objs)

BatchFullIgnoresSign(data, size) == Len(data) >= size

BatchFullOffByOne(data, size) == size > 0 /\ Len(data) > size

\* Line 56: the batch is sent once it has batchSize rows.
BatchFull(data, size) == size > 0 /\ Len(data) >= size

MustFlushNever(data) == FALSE

\* Line 66: what is left is flushed when there is any.
MustFlush(data) == Len(data) > 0

SetupStartsAnyway(e) == [chan |-> "open", err |-> e, started |-> TRUE]

\* Lines 18-28 and 73: on a failed Query or Columns call the function returns
\* (nil, err) and starts nothing; else it makes the channel and starts the
\* goroutine.
QuerySetup(e) ==
    IF e # NoErr
    THEN [chan |-> "nil", err |-> e, started |-> FALSE]
    ELSE [chan |-> "open", err |-> NoErr, started |-> TRUE]

\* rows.Next() has another row.
HasNext == rowIdx < Len(rows) /\ (readErrAt = -1 \/ rowIdx < readErrAt)

\* Where the goroutine goes after the loop's sends: the flush or the close.
AfterErrCheck(data) == IF MustFlush(data) THEN "sendFlush" ELSE "close"

\* Lines 37-63: one iteration of the loop up to its next send, or the end of
\* the loop and the check of rows.Err().
QNext ==
    /\ ~panicked
    /\ qpc = "next"
    /\ IF HasNext
       THEN LET data == Append(tableData, Entry(rows[rowIdx + 1]))
            IN  /\ rowIdx' = rowIdx + 1
                /\ tableData' = data
                /\ qpc' = IF BatchFull(data, batchSize) THEN "sendBatch" ELSE "next"
       ELSE /\ qpc' = IF readErrAt # -1 THEN "sendErr" ELSE AfterErrCheck(tableData)
            /\ UNCHANGED <<rowIdx, tableData>>
    /\ UNCHANGED <<queryIn, dataChan, emitted, sqVars, chanVars, runVars, stageIn,
                   drvVars, concVars, insVars, sinkVars>>

\* The envelope the goroutine is blocked sending.
Offered ==
    CASE qpc = "sendBatch" -> TableEnvelope(tableData)
      [] qpc = "sendFlush" -> TableEnvelope(tableData)
      [] qpc = "sendErr" -> ErrEnvelope("read")
      [] OTHER -> ErrEnvelope("")

\* dataChan is unbuffered: a send of the goroutine (lines 57, 62, 67) and the
\* receive of the stage's range loop happen together.
QSend ==
    /\ ~panicked
    /\ qpc \in {"sendBatch", "sendErr", "sendFlush"}
    /\ spc = "range"
    /\ dataChan = "open"
    /\ emitted' = Append(emitted, Offered)
    /\ held' = Offered
    /\ spc' = "forward"
    /\ qpc' = CASE qpc = "sendBatch" -> "next"
                [] qpc = "sendErr" -> AfterErrCheck(tableData)
                [] OTHER -> "close"
    /\ tableData' = IF qpc = "sendBatch" THEN <<>> ELSE tableData
    /\ UNCHANGED <<queryIn, rowIdx, dataChan, chanVars, runVars, stageIn, drvVars,
                   concVars, insVars, sinkVars>>

\* Line 70: close(dataChan).
QClose ==
    /\ ~panicked
    /\ qpc = "close"
    /\ dataChan' = "closed"
    /\ qpc' = "done"
    /\ UNCHANGED <<queryIn, rowIdx, tableData, emitted, sqVars, chanVars, runVars,
                   stageIn, drvVars, concVars, insVars, sinkVars>>

\* ------------------------------------------------------------ SQLQueryer

\* starters/sql_queryer.go 26-29, stages/sql_writer.go 72-73: the call of
\* GetDataFromSQLQuery and the check of its error.
SQCall ==
    /\ ~panicked
    /\ spc = "call"
    /\ LET r == QuerySetup(setupErr)
       IN  /\ dataChan' = r.chan
           /\ qpc' = IF r.started THEN "next" ELSE qpc
           /\ spc' = IF r.err # NoErr THEN "kill" ELSE "range"
    /\ UNCHANGED <<queryIn, rowIdx, tableData, emitted, held, chanVars, runVars,
                   stageIn, drvVars, concVars, insVars, sinkVars>>

\* killChan <- err (KillPipelineIfErr in HandleData): the stage then goes on
\* to its range loop.
SQKill ==
    /\ ~panicked
    /\ spc = "kill"
    /\ KillDeliver(setupErr)
    /\ spc' = "range"
    /\ UNCHANGED <<queryIn, gorVars, held, chanVars, panicked, stageIn, drvVars,
                   concVars, insVars, sinkVars>>

\* outputChan <- data.
SQForward ==
    /\ ~panicked
    /\ spc = "forward"
    /\ SendOn(1, held)
    /\ spc' = "range"
    /\ UNCHANGED <<queryIn, gorVars, held, killSent, runErr, aborted, runState,
                   stageIn, drvVars, concVars, insVars, sinkVars>>

\* The range loop ends when dataChan is closed. A range over a nil channel
\* never ends and never receives: no step is enabled for it.
SQRangeEnd ==
    /\ ~panicked
    /\ spc = "range"
    /\ dataChan = "closed"
    /\ spc' = IF variant = "Start" THEN "close" ELSE "returned"
    /\ UNCHANGED <<queryIn, gorVars, held, chanVars, runVars, stageIn, drvVars,
                   concVars, insVars, sinkVars>>

\* starters/sql_queryer.go 34: Start closes outputChan and returns.
SQStartClose ==
    /\ ~panicked
    /\ spc = "close"
    /\ CloseChan(1)
    /\ spc' = "finished"
    /\ UNCHANGED <<queryIn, gorVars, held, killSent, runErr, aborted, runState,
                   stageIn, drvVars, concVars, insVars, sinkVars>>

\* stages/sql_writer.go 81-83: Finish, called once HandleData has returned,
\* closes outputChan.
SQFinish ==
    /\ ~panicked
    /\ spc = "returned"
    /\ CloseChan(1)
    /\ finishes' = [finishes EXCEPT ![1] = @ + 1]
    /\ spc' = "finished"
    /\ UNCHANGED <<queryIn, gorVars, held, killSent, runErr, aborted, runState,
                   stageIn, dpc, todo, goPending, procStarted, procReturned, recvd,
                   concVars, insVars, sinkVars>>

\* The consumer of the stage's output takes a record.
Consume ==
    /\ ~panicked
    /\ chans[1] # <<>>
    /\ chans' = [chans EXCEPT ![1] = Tail(@)]
    /\ UNCHANGED <<queryIn, gorVars, sqVars, sent, closes, runVars, stageIn, drvVars,
                   concVars, insVars, sinkVars>>

\* ------------------------------------------------------------ the SQL sink

\* Most objects in one array envelope given to the sink.
MaxObjs == 2

\* The bytes of the column names in use.
KeyBytes(k) ==
    CASE k = "a" -> <<97>>
      [] k = "ab" -> <<97, 98>>
      [] k = "b" -> <<98>>
      [] k = "B" -> <<66>>
      [] k = "id" -> <<105, 100>>
      [] k = "name" -> <<110, 97, 109, 101>>
      [] k = "Error" -> <<69, 114, 114, 111, 114>>
      [] OTHER -> <<>>

\* s < t for strings as Go compares them: byte by byte, a proper prefix first.
RECURSIVE LexLess(_, _)
LexLess(s, t) ==
    IF t = <<>> THEN FALSE
    ELSE IF s = <<>> THEN TRUE
    ELSE IF Head(s) < Head(t) THEN TRUE
    ELSE IF Head(s) > Head(t) THEN FALSE
    ELSE LexLess(Tail(s), Tail(t))

StringLess(a, b) == LexLess(KeyBytes(a), KeyBytes(b))

RECURSIVE InsertSorted(_, _)
InsertSorted(sorted, x) ==
    IF sorted = <<>> THEN <<x>>
    ELSE IF StringLess(x, Head(sorted)) THEN <<x>> \o sorted
    ELSE <<Head(sorted)>> \o InsertSorted(Tail(sorted), x)

\* sort.Strings
RECURSIVE SortStrings(_)
SortStrings(s) ==
    IF s = <<>> THEN <<>> ELSE InsertSorted(SortStrings(Tail(s)), Head(s))

sortedColumnsUnsorted(iter) == iter

\* Lines 192-199: the keys of the object, collected in the order the map
\* yields them (iter) and then sorted.
sortedColumns(iter) == SortStrings(iter)

\* The orders in which a range over a map may yield its keys.
IterOrders(object) ==
    {s \in [1..Cardinality(DOMAIN object) -> DOMAIN object] :
        \A i, j \in DOMAIN s : i # j => s[i] # s[j]}

\* A piece of the statement text: its text or role, and the name in it.
Tok(t, k) == [t |-> t, k |-> k]

\* strings.Join(cols, ",") and the loops that put "," before every piece but
\* the first.
RECURSIVE JoinComma(_)
JoinComma(pieces) ==
    IF pieces = <<>> THEN <<>>
    ELSE IF Len(pieces) = 1 THEN pieces[1]
    ELSE pieces[1] \o <<Tok(",", "")>> \o JoinComma(Tail(pieces))

\* Lines 162-169: "(?,?)", one "?" per column.
PlaceholderGroup(cols) ==
    <<Tok("(", "")>> \o JoinComma([i \in 1..Len(cols) |-> <<Tok("?", "")>>])
        \o <<Tok(")", "")>>

UpsertClauseOff(cols, onDupKeyUpdate) == <<>>

\* Lines 178-187: " ON DUPLICATE KEY UPDATE `c`=VALUES(`c`),..." when
\* onDupKeyUpdate is set.
UpsertClause(cols, onDupKeyUpdate) ==
    IF onDupKeyUpdate
    THEN <<Tok("ON DUPLICATE KEY UPDATE", "")>>
            \o JoinComma([i \in 1..Len(cols) |-> <<Tok("assign", cols[i])>>])
    ELSE <<>>

\* Lines 156-190: INSERT INTO tablename(col1,col2) VALUES(?,?),(?,?) and the
\* upsert clause. objects[0] of an empty slice panics: the caller checks
\* that before.
buildInsertSQL(objects, tableName, onDupKeyUpdate, iter) ==
    LET cols == sortedColumns(iter)
    IN  <<Tok("INSERT INTO", tableName), Tok("(", "")>>
            \o JoinComma([i \in 1..Len(cols) |-> <<Tok("col", cols[i])>>])
            \o <<Tok(")", ""), Tok("VALUES", "")>>
            \o JoinComma([i \in 1..Len(objects) |-> PlaceholderGroup(cols)])
            \o UpsertClause(cols, onDupKeyUpdate)

NilCell == [t |-> "nil", v |-> 0]

\* object[k]: the value, nil for a key the map does not hold.
MapGet(object, k) == IF k \in DOMAIN object THEN object[k] ELSE NilCell

RECURSIVE Flatten(_)
Flatten(ss) == IF ss = <<>> THEN <<>> ELSE Head(ss) \o Flatten(Tail(ss))

\* Lines 129-137: the values of every object, in the order of the sorted
\* columns of the first.
BoundValues(objects, iter) ==
    LET cols == sortedColumns(iter)
    IN  Flatten([r \in 1..Len(objects) |->
            [c \in 1..Len(cols) |-> MapGet(objects[r], cols[c])]])

\* What a call did: what it returned ("nil", an error or "panic"), the
\* statement it built, the values it bound, and its Prepare and Exec calls.
InsertResult(ret, stmt, vals, prepares, execs) ==
    [ret |-> ret, stmt |-> stmt, vals |-> vals, prepares |-> prepares, execs |-> execs]

insertObjectsExecAnyway(objects, tableName, onDupKeyUpdate, db, iter1, iter2) ==
    IF objects = <<>>
    THEN InsertResult("panic", <<>>, <<>>, 0, 0)
    ELSE InsertResult(IF db.prepare = "err" THEN "prepare" ELSE "nil",
                      buildInsertSQL(objects, tableName, onDupKeyUpdate, iter1),
                      BoundValues(objects, iter2), 1, 1)

\* Lines 121-154. db says what the database answers: db.prepare, db.exec,
\* db.lastId and db.rowCnt are "ok" or "err". iter1 and iter2 are the
\* orders in which the two sortedColumns calls range over objects[0].
insertObjects(objects, tableName, onDupKeyUpdate, db, iter1, iter2) ==
    IF objects = <<>>
    THEN InsertResult("panic", <<>>, <<>>, 0, 0)
    ELSE LET insertSQL == buildInsertSQL(objects, tableName, onDupKeyUpdate, iter1)
             vals == BoundValues(objects, iter2)
         IN  IF db.prepare = "err" THEN InsertResult("prepare", insertSQL, <<>>, 1, 0)
             ELSE IF db.exec = "err" THEN InsertResult("exec", insertSQL, vals, 1, 1)
             ELSE IF db.lastId = "err" THEN InsertResult("lastid", insertSQL, vals, 1, 1)
             ELSE IF db.rowCnt = "err" THEN InsertResult("rowcnt", insertSQL, vals, 1, 1)
             ELSE InsertResult("nil", insertSQL, vals, 1, 1)

\* Decoded JSON values: an object, an array of values, a scalar; and an
\* envelope that does not parse.
EmptyObj == [k \in {} |-> NilCell]
ObjVal(f) == [t |-> "object", obj |-> f, elems |-> <<>>]
ScalarVal == [t |-> "scalar", obj |-> EmptyObj, elems |-> <<>>]
ArrVal(es) == [t |-> "array", obj |-> EmptyObj, elems |-> es]
Malformed == [t |-> "malformed", obj |-> EmptyObj, elems |-> <<>>]

\* Lines 96-119, on the value ParseData decoded. o.(map[string]interface{})
\* on an element that is no object panics.
SQLInsertData(v, tableName, onDupKeyUpdate, db, iter1, iter2) ==
    CASE v.t = "malformed" -> InsertResult("parse", <<>>, <<>>, 0, 0)
      [] v.t = "array" ->
            IF \E i \in 1..Len(v.elems) : v.elems[i].t # "object"
            THEN InsertResult("panic", <<>>, <<>>, 0, 0)
            ELSE insertObjects([i \in 1..Len(v.elems) |-> v.elems[i].obj],
                               tableName, onDupKeyUpdate, db, iter1, iter2)
      [] v.t = "object" ->
            insertObjects(<<v.obj>>, tableName, onDupKeyUpdate, db, iter1, iter2)
      [] OTHER -> InsertResult("unsupported", <<>>, <<>>, 0, 0)

\* The objects[0] whose keys the call ranges over, if the call gets that far.
FirstObject(v) ==
    CASE v.t = "object" -> v.obj
      [] v.t = "array" /\ v.elems # <<>> -> v.elems[1].obj
      [] OTHER -> EmptyObj

FloatCell(n) == [t |-> "float", v |-> n]

\* The objects the sink is tried on.
ObjectPool ==
    { [b |-> FloatCell(1), a |-> FloatCell(2)],
      [b |-> FloatCell(3), a |-> FloatCell(4)],
      [a |-> FloatCell(5)],
      [ab |-> FloatCell(6), B |-> FloatCell(7), a |-> FloatCell(8)] }

ElemPool == {ObjVal(o) : o \in ObjectPool} \cup {ScalarVal}

InsertInputs ==
    {ArrVal(es) : es \in SeqsUpTo(ElemPool, MaxObjs)} \cup ElemPool \cup {Malformed}

DbOutcomes == [prepare : {"ok", "err"}, exec : {"ok", "err"},
               lastId : {"ok", "err"}, rowCnt : {"ok", "err"}]

NotCalled == InsertResult("pending", <<>>, <<>>, 0, 0)

TableName == "t"

\* One SQLInsertData call on the envelope, against a database that answers
\* as it likes.
InsertCall ==
    /\ insRes = NotCalled
    /\ \E db \in DbOutcomes :
       \E iter1 \in IterOrders(FirstObject(insData)) :
       \E iter2 \in IterOrders(FirstObject(insData)) :
            insRes' = SQLInsertData(insData, TableName, insOnDup, db, iter1, iter2)
    /\ UNCHANGED <<insData, insOnDup, queryIn, gorVars, sqVars, chanVars, runVars,
                   stageIn, drvVars, concVars, sinkVars>>

\* -------------------------------------------------------------- the stages

\* Largest pool size of the concurrent stage.
MaxK == 2

\* Longest result set of the query when it feeds a pipeline.
PipeRows == 4

Stages == {1, 2, 3}

\* The terminal stage: it has no output channel.
LastStage == Cardinality(Stages)

\* The record the first stage is started with.
GO == StringEnvelope("GO")

\* What a ProcessData call does, in order: sends on its output channel and
\* sends on the kill channel.
SendOp(r) == [op |-> "send", rec |-> r, err |-> ""]
KillOp(e) == [op |-> "kill", rec |-> ErrEnvelope(""), err |-> e]

\* The function a FuncTransformer is built with.
foo(d) == [d EXCEPT !.msg = d.msg \o "'"]

\* part_000 19-21: outputChan <- t.foo(d).
FuncTransformerOps(d) == <<SendOp(foo(d))>>

\* What the walker of an SftpReader steps through: the root directory, a
\* file, a subdirectory (unreadable or not) and another file.
WalkEntries(unreadable) ==
    << [path |-> "/", isDir |-> TRUE, err |-> NoErr],
       [path |-> "/p1", isDir |-> FALSE, err |-> NoErr],
       [path |-> "/d", isDir |-> TRUE, err |-> IF unreadable THEN "walk" ELSE NoErr],
       [path |-> "/p2", isDir |-> FALSE, err |-> NoErr] >>

\* part_001 66-88 with FileNamesOnly set: for every step of the walker,
\* KillPipelineIfErr(walker.Err()) and, for what is no directory,
\* outputChan <- NewJSON(path).
RECURSIVE SftpWalkOps(_)
SftpWalkOps(entries) ==
    IF entries = <<>> THEN <<>>
    ELSE LET e == Head(entries)
         IN  (IF e.err # NoErr THEN <<KillOp(e.err)>> ELSE <<>>)
                \o (IF ~e.isDir THEN <<SendOp(StringEnvelope(e.path))>> ELSE <<>>)
                \o SftpWalkOps(Tail(entries))

\* part_001 39-46 with Walk set, on a reader built by NewSftpReaderByClient
\* (initialized): the record received is not looked at.
SftpReaderOps(d, unreadable) == SftpWalkOps(WalkEntries(unreadable))

\* json.Unmarshal into interface{}: a number becomes a float64.
DecodeCell(c) == IF c.t = "int" THEN [t |-> "float", v |-> c.v] ELSE c

\* ParseData(data, &v) on the envelopes that flow in the pipeline.
Decode(d) ==
    CASE d.kind = "array" ->
            ArrVal([i \in 1..Len(d.objs) |->
                ObjVal([k \in DOMAIN d.objs[i] |-> DecodeCell(d.objs[i][k])])])
      [] d.kind = "error" -> ObjVal([k \in {"Error"} |-> StringCell(0)])
      [] OTHER -> ScalarVal

\* What the database answers in a pipeline run.
PipeDbOutcomes ==
    { [prepare |-> "ok", exec |-> "ok", lastId |-> "ok", rowCnt |-> "ok"],
      [prepare |-> "ok", exec |-> "err", lastId |-> "ok", rowCnt |-> "ok"] }

\* stages/sql_writer.go 31-34: SQLInsertData, then KillPipelineIfErr.
SQLWriterOps(ret) == IF ret = "nil" THEN <<>> ELSE <<KillOp(ret)>>

\* stages/io_writer.go 25-29: Writer.Write(d), then KillPipelineIfErr.
IoWriterOps(ret) == IF ret = "nil" THEN <<>> ELSE <<KillOp(ret)>>

\* What the call returned by SQLInsertData on d can be.
SQLWriterRets(d) ==
    {SQLInsertData(Decode(d), TableName, TRUE, db, iter, iter).ret :
        db \in PipeDbOutcomes, iter \in IterOrders(FirstObject(Decode(d)))}

\* The ProcessData call of a stage of kind k on record d: the sequences of
\* sends it may make ("panic" when it panics instead).
ProcessOps(k, d) ==
    CASE k = "FuncTransformer" -> {FuncTransformerOps(d)}
      [] k = "SftpReader" -> {SftpReaderOps(d, walkErr)}
      [] k = "SQLWriter" -> {SQLWriterOps(ret) : ret \in SQLWriterRets(d) \ {"panic"}}
      [] k = "IoWriter" -> {IoWriterOps(ret) : ret \in {"nil", "write"}}
      [] OTHER -> {}

ProcessPanics(k, d) == k = "SQLWriter" /\ "panic" \in SQLWriterRets(d)

\* Finish of FuncTransformer (part_000 23-27), SQLWriter (sql_writer.go
\* 37-41), CSVWriter (csv_writer.go 57-61), IoWriter (io_writer.go 32-36) and
\* SQLQueryer (sql_writer.go 81-83) closes outputChan when it is not nil;
\* Finish of SftpReader (part_001 48) does nothing.
FinishCloses(k) ==
    k \in {"FuncTransformer", "SQLWriter", "CSVWriter", "IoWriter", "SQLQueryer"}

\* ----------------------------------------------------- the stage drivers

IsConcurrentStage(s) == s = 2 /\ conc > 1

\* The input of a stage: the start record for the first, else the channel of
\* the stage before it.
HasInput(s) == IF s = 1 THEN goPending ELSE chans[s - 1] # <<>>

InputClosed(s) == IF s = 1 THEN ~goPending ELSE chans[s - 1] = <<>> /\ closes[s - 1] > 0

NextInput(s) == IF s = 1 THEN GO ELSE Head(chans[s - 1])

TakeInput(s) ==
    IF s = 1
    THEN goPending' = FALSE /\ UNCHANGED chans
    ELSE chans' = [chans EXCEPT ![s - 1] = Tail(@)] /\ UNCHANGED goPending

MayAdmitAfterAbort(isAborted) == TRUE

\* A driver admits a record only while the kill signal carries no error.
MayAdmit(isAborted) == ~isAborted

\* A sequential driver takes the next record and calls ProcessData.
DriverRecv(s) ==
    /\ ~panicked
    /\ dpc[s] = "recv"
    /\ MayAdmit(aborted)
    /\ ~IsConcurrentStage(s)
    /\ HasInput(s)
    /\ TakeInput(s)
    /\ dpc' = [dpc EXCEPT ![s] = "proc"]
    /\ procStarted' = [procStarted EXCEPT ![s] = @ + 1]
    /\ recvd' = IF s = 2 THEN Append(recvd, NextInput(s)) ELSE recvd
    /\ IF kind[s] = "SQLQueryer"
       THEN /\ spc' = "call"
            /\ UNCHANGED <<todo, panicked>>
       ELSE /\ \/ /\ \E ops \in ProcessOps(kind[s], NextInput(s)) :
                        todo' = [todo EXCEPT ![s] = ops]
                  /\ UNCHANGED panicked
               \/ /\ ProcessPanics(kind[s], NextInput(s))
                  /\ panicked' = TRUE
                  /\ UNCHANGED todo
            /\ UNCHANGED spc
    /\ UNCHANGED <<queryIn, gorVars, held, sent, closes, killSent, runErr, aborted,
                   runState, stageIn, finishes, procReturned, concVars, insVars, sinkVars>>

\* The ProcessData call in flight in a sequential stage makes its next send.
ProcStep(s) ==
    /\ ~panicked
    /\ dpc[s] = "proc"
    /\ kind[s] # "SQLQueryer"
    /\ todo[s] # <<>>
    /\ LET o == Head(todo[s])
       IN  IF o.op = "send"
           THEN /\ SendOn(s, o.rec)
                /\ UNCHANGED <<killSent, runErr, aborted, runState>>
           ELSE /\ KillDeliver(o.err)
                /\ UNCHANGED <<chanVars, panicked>>
    /\ todo' = [todo EXCEPT ![s] = Tail(@)]
    /\ UNCHANGED <<queryIn, gorVars, sqVars, stageIn, dpc, goPending, finishes,
                   procStarted, procReturned, recvd, concVars, insVars, sinkVars>>

\* The ProcessData call returns to the driver.
ProcReturn(s) ==
    /\ ~panicked
    /\ dpc[s] = "proc"
    /\ IF kind[s] = "SQLQueryer" THEN spc = "returned" ELSE todo[s] = <<>>
    /\ dpc' = [dpc EXCEPT ![s] = "recv"]
    /\ procReturned' = [procReturned EXCEPT ![s] = @ + 1]
    /\ spc' = IF kind[s] = "SQLQueryer" THEN "idle" ELSE spc
    /\ UNCHANGED <<queryIn, gorVars, held, chanVars, runVars, stageIn, todo, goPending,
                   finishes, procStarted, recvd, concVars, insVars, sinkVars>>

PoolIdleIgnoresWorkers(s) ==
    IsConcurrentStage(s) => (DOMAIN buffer = {} /\ emitting = <<>>)

\* Nothing of the stage's pool is in flight: no worker, no buffered entry,
\* nothing being forwarded.
PoolIdle(s) ==
    IsConcurrentStage(s) => (DOMAIN workers = {} /\ DOMAIN buffer = {} /\ emitting = <<>>)

\* The input is closed and drained and every call has returned: the driver
\* goes on to Finish.
DriverEnd(s) ==
    /\ ~panicked
    /\ dpc[s] = "recv"
    /\ ~aborted
    /\ InputClosed(s)
    /\ PoolIdle(s)
    /\ dpc' = [dpc EXCEPT ![s] = "finish"]
    /\ UNCHANGED <<queryIn, gorVars, sqVars, chanVars, runVars, stageIn, todo, goPending,
                   finishes, procStarted, procReturned, recvd, concVars, insVars, sinkVars>>

\* The driver calls the stage's Finish.
DriverFinish(s) ==
    /\ ~panicked
    /\ dpc[s] = "finish"
    /\ finishes' = [finishes EXCEPT ![s] = @ + 1]
    /\ IF FinishCloses(kind[s]) /\ s # LastStage
       THEN CloseChan(s)
       ELSE UNCHANGED <<chanVars, panicked>>
    /\ dpc' = [dpc EXCEPT ![s] = "close"]
    /\ UNCHANGED <<queryIn, gorVars, sqVars, killSent, runErr, aborted, runState,
                   stageIn, todo, goPending, procStarted, procReturned, recvd, concVars,
                   insVars, sinkVars>>

\* The driver closes the stage's output channel, unless the stage is the
\* last one.
DriverClose(s) ==
    /\ ~panicked
    /\ dpc[s] = "close"
    /\ IF s # LastStage
       THEN CloseChan(s)
       ELSE UNCHANGED <<chanVars, panicked>>
    /\ dpc' = [dpc EXCEPT ![s] = "done"]
    /\ UNCHANGED <<queryIn, gorVars, sqVars, killSent, runErr, aborted, runState,
                   stageIn, todo, goPending, finishes, procStarted, procReturned, recvd,
                   concVars, insVars, sinkVars>>

\* A driver between two records sees the kill signal and exits, once the
\* calls of its pool have returned.
DriverAbort(s) ==
    /\ ~panicked
    /\ dpc[s] = "recv"
    /\ aborted
    /\ IsConcurrentStage(s) => DOMAIN workers = {}
    /\ dpc' = [dpc EXCEPT ![s] = "exited"]
    /\ UNCHANGED <<queryIn, gorVars, sqVars, chanVars, runVars, stageIn, todo, goPending,
                   finishes, procStarted, procReturned, recvd, concVars, insVars, sinkVars>>

\* ---------------------------------------------------- the concurrent stage

Restrict(f, S) == [x \in S |-> f[x]]

IsKill(o) == o.op = "kill"

HasKill(ops) == \E i \in 1..Len(ops) : IsKill(ops[i])

FirstKill(ops) == CHOOSE i \in 1..Len(ops) : IsKill(ops[i]) /\ \A j \in 1..(i - 1) : ~IsKill(ops[j])

Recs(ops) == [i \in 1..Len(ops) |-> ops[i].rec]

AdmitAlways(inFlight, k) == TRUE

\* The admission semaphore has a free slot.
SlotFree(inFlight, k) == inFlight < k

\* The driver of the concurrent stage takes the next record, gives it the
\* next sequence number and hands it to a worker.
Admit ==
    /\ ~panicked
    /\ IsConcurrentStage(2)
    /\ dpc[2] = "recv"
    /\ MayAdmit(aborted)
    /\ HasInput(2)
    /\ SlotFree(Cardinality(DOMAIN workers), conc)
    /\ \E ops \in ProcessOps(kind[2], NextInput(2)) :
            workers' = (nextSeq :> [todo |-> ops, out |-> <<>>]) @@ workers
    /\ nextSeq' = nextSeq + 1
    /\ TakeInput(2)
    /\ procStarted' = [procStarted EXCEPT ![2] = @ + 1]
    /\ recvd' = Append(recvd, NextInput(2))
    /\ UNCHANGED <<queryIn, gorVars, sqVars, sent, closes, runVars, stageIn, dpc, todo,
                   finishes, procReturned, buffer, cursor, emitting, doneOrder, insVars, sinkVars>>

\* A worker's call sends on the kill channel; what it emitted before is kept
\* with it.
WorkerKill(q) ==
    /\ ~panicked
    /\ q \in DOMAIN workers
    /\ HasKill(workers[q].todo)
    /\ LET w == workers[q]
           i == FirstKill(w.todo)
       IN  /\ KillDeliver(w.todo[i].err)
           /\ workers' = [workers EXCEPT ![q] =
                    [todo |-> SubSeq(w.todo, i + 1, Len(w.todo)),
                     out |-> w.out \o Recs(SubSeq(w.todo, 1, i - 1))]]
    /\ UNCHANGED <<queryIn, gorVars, sqVars, chanVars, panicked, stageIn, drvVars,
                   nextSeq, buffer, cursor, emitting, doneOrder, insVars, sinkVars>>

\* A worker's call returns: its sub-sequence goes into the reordering buffer
\* under its sequence number, and its slot is free again.
WorkerFinish(q) ==
    /\ ~panicked
    /\ q \in DOMAIN workers
    /\ ~HasKill(workers[q].todo)
    /\ buffer' = (q :> (workers[q].out \o Recs(workers[q].todo))) @@ buffer
    /\ workers' = Restrict(workers, DOMAIN workers \ {q})
    /\ procReturned' = [procReturned EXCEPT ![2] = @ + 1]
    /\ doneOrder' = Append(doneOrder, q)
    /\ UNCHANGED <<queryIn, gorVars, sqVars, chanVars, runVars, stageIn, dpc, todo,
                   goPending, finishes, procStarted, recvd, nextSeq, cursor, emitting,
                   insVars, sinkVars>>

EmitAnyBuffered(buf, cur) == DOMAIN buf

\* The entries the emitter may pop: the one at its cursor.
EmitNext(buf, cur) == DOMAIN buf \cap {cur}

\* The emitter pops the entry its cursor is at and advances the cursor.
EmitPop ==
    /\ ~panicked
    /\ IsConcurrentStage(2)
    /\ ~aborted
    /\ emitting = <<>>
    /\ \E q \in EmitNext(buffer, cursor) :
        /\ emitting' = buffer[q]
        /\ buffer' = Restrict(buffer, DOMAIN buffer \ {q})
    /\ cursor' = cursor + 1
    /\ UNCHANGED <<queryIn, gorVars, sqVars, chanVars, runVars, stageIn, drvVars,
                   nextSeq, workers, doneOrder, insVars, sinkVars>>

\* The emitter forwards the next record of the popped entry.
EmitForward ==
    /\ ~panicked
    /\ IsConcurrentStage(2)
    /\ ~aborted
    /\ emitting # <<>>
    /\ SendOn(2, Head(emitting))
    /\ emitting' = Tail(emitting)
    /\ UNCHANGED <<queryIn, gorVars, sqVars, killSent, runErr, aborted, runState,
                   stageIn, drvVars, nextSeq, workers, buffer, cursor, doneOrder, insVars, sinkVars>>

\* ------------------------------------------------------------------ the run

AllDrivers(states) == \A s \in Stages : dpc[s] \in states

\* After an abort the run drains what the stages still write.
RunDrain ==
    /\ ~panicked
    /\ runState = "running"
    /\ aborted
    /\ \E c \in Channels :
        /\ chans[c] # <<>>
        /\ chans' = [chans EXCEPT ![c] = Tail(@)]
    /\ UNCHANGED <<queryIn, gorVars, sqVars, sent, closes, runVars, stageIn, drvVars,
                   concVars, insVars, sinkVars>>

\* Every driver has completed: the run returns without an error.
RunReturnOK ==
    /\ ~panicked
    /\ runState = "running"
    /\ ~aborted
    /\ AllDrivers({"done"})
    /\ runState' = "returned"
    /\ UNCHANGED <<queryIn, gorVars, sqVars, chanVars, killSent, runErr, aborted,
                   panicked, stageIn, drvVars, concVars, insVars, sinkVars>>

\* The kill signal carries an error and every driver has exited: the run
\* returns the first error.
RunReturnErr ==
    /\ ~panicked
    /\ runState = "running"
    /\ aborted
    /\ AllDrivers({"done", "exited"})
    /\ runState' = "returned"
    /\ UNCHANGED <<queryIn, gorVars, sqVars, chanVars, killSent, runErr, aborted,
                   panicked, stageIn, drvVars, concVars, insVars, sinkVars>>

\* -------------------------------------------- a sink stage on its own

\* Most ProcessData calls made on the sink before Finish.
MaxCalls == 2

\* data.ObjectsFromJSON: the objects of a single object or of an array of
\* objects; an error, and no objects, for anything else.
ObjectsFromJSON(v) ==
    CASE v.t = "object" -> [objs |-> <<v.obj>>, err |-> NoErr]
      [] v.t = "array" /\ \A i \in 1..Len(v.elems) : v.elems[i].t = "object" ->
            [objs |-> [i \in 1..Len(v.elems) |-> v.elems[i].obj], err |-> NoErr]
      [] OTHER -> [objs |-> <<>>, err |-> "decode"]

\* fmt.Sprintf("%v", v): the text of a value.
Sprintf(c) == [t |-> "text", v |-> c.v]

HeaderRow(cells) == [hdr |-> TRUE, cells |-> cells]
DataRow(cells) == [hdr |-> FALSE, cells |-> cells]

\* What a CSVWriter.ProcessData call did: the rows it handed to WriteAll, the
\* flag it leaves, what it sent on killChan before WriteAll, and whether it
\* panicked.
CSVResult(out, flag, ops, panic) ==
    [rows |-> out, headerWritten |-> flag, ops |-> ops, panic |-> panic]

\* stages/csv_writer.go 29-51, up to the WriteAll call. iterH is the order
\* in which the range over objects[0] yields its keys, iterRows[i] the order
\* in which the range over object i yields its values.
CSVWriterRows(v, wHeader, hWritten, iterH, iterRows) ==
    LET dec == ObjectsFromJSON(v)
        objects == dec.objs
        ops == IF dec.err # NoErr THEN <<KillOp(dec.err)>> ELSE <<>>
        withHeader == wHeader /\ ~hWritten
        dataRows == [i \in 1..Len(objects) |->
                        DataRow([j \in 1..Len(iterRows[i]) |->
                                    Sprintf(objects[i][iterRows[i][j]])])]
    IN  IF withHeader /\ objects = <<>>
        THEN CSVResult(<<>>, hWritten, ops, TRUE)
        ELSE CSVResult((IF withHeader THEN <<HeaderRow(iterH)>> ELSE <<>>) \o dataRows,
                       hWritten \/ withHeader, ops, FALSE)

\* The envelopes a sink is called on: the empty array, arrays of one and of
\* two objects with the same keys, a single object, a scalar, an array with a
\* scalar in it and an envelope that does not parse.
SinkInputs ==
    { ArrVal(<<>>),
      ArrVal(<<ObjVal([b |-> FloatCell(1), a |-> FloatCell(2)]),
               ObjVal([b |-> FloatCell(3), a |-> FloatCell(4)])>>),
      ArrVal(<<ObjVal([a |-> FloatCell(5)])>>),
      ObjVal([b |-> FloatCell(1), a |-> FloatCell(2)]),
      ArrVal(<<ObjVal([a |-> FloatCell(5)]), ScalarVal>>),
      ScalarVal,
      Malformed }

\* The orders in which the ranges over the objects may yield their keys.
RowIterOrders(objects) ==
    {f \in [1..Len(objects) -> UNION {IterOrders(objects[i]) : i \in 1..Len(objects)}] :
        \A i \in 1..Len(objects) : f[i] \in IterOrders(objects[i])}

ErrsOf(ops) == [i \in 1..Len(ops) |-> ops[i].err]

\* What a call's sends add to the stage's record.
SinkEffects(ops) ==
    /\ sinkSent' = sinkSent \o Recs(SelectSeq(ops, LAMBDA o : ~IsKill(o)))
    /\ sinkKills' = sinkKills \o ErrsOf(SelectSeq(ops, IsKill))

SinkFrame ==
    UNCHANGED <<sinkIn, sinkCloses, queryIn, gorVars, sqVars, chanVars, runVars, stageIn,
                drvVars, concVars, insVars>>

\* One CSVWriter.ProcessData call (stages/csv_writer.go 29-54): WriteAll
\* writes every row, or fails after some of them and the error goes on
\* killChan.
CSVWriterProcessData ==
    /\ sinkKind = "CSVWriter"
    /\ sinkState = "open"
    /\ Len(sinkCalls) < MaxCalls
    /\ \E v \in SinkInputs :
       \E iterH \in IterOrders(FirstObject(v)) :
       \E iterRows \in RowIterOrders(ObjectsFromJSON(v).objs) :
            LET r == CSVWriterRows(v, writeHeader, headerWritten, iterH, iterRows)
            IN  /\ sinkCalls' = Append(sinkCalls, v)
                /\ headerWritten' = r.headerWritten
                /\ IF r.panic
                   THEN /\ sinkState' = "panicked"
                        /\ SinkEffects(r.ops)
                        /\ UNCHANGED csvOut
                   ELSE /\ UNCHANGED sinkState
                        /\ \/ /\ csvOut' = csvOut \o r.rows
                              /\ SinkEffects(r.ops)
                           \/ /\ \E k \in 0..(Len(r.rows) - 1) :
                                    csvOut' = csvOut \o SubSeq(r.rows, 1, k)
                              /\ SinkEffects(r.ops \o <<KillOp("write")>>)
    /\ SinkFrame

\* One SQLWriter.ProcessData call (stages/sql_writer.go 31-34).
SQLWriterProcessData ==
    /\ sinkKind = "SQLWriter"
    /\ sinkState = "open"
    /\ Len(sinkCalls) < MaxCalls
    /\ \E v \in SinkInputs :
       \E db \in PipeDbOutcomes :
       \E iter \in IterOrders(FirstObject(v)) :
            LET ret == SQLInsertData(v, TableName, TRUE, db, iter, iter).ret
            IN  /\ sinkCalls' = Append(sinkCalls, v)
                /\ IF ret = "panic"
                   THEN sinkState' = "panicked" /\ UNCHANGED <<sinkSent, sinkKills>>
                   ELSE UNCHANGED sinkState /\ SinkEffects(SQLWriterOps(ret))
    /\ UNCHANGED <<headerWritten, csvOut>>
    /\ SinkFrame

\* One IoWriter.HandleData call (stages/io_writer.go 25-29).
IoWriterHandleData ==
    /\ sinkKind = "IoWriter"
    /\ sinkState = "open"
    /\ Len(sinkCalls) < MaxCalls
    /\ \E v \in SinkInputs :
       \E ret \in {"nil", "write"} :
            /\ sinkCalls' = Append(sinkCalls, v)
            /\ SinkEffects(IoWriterOps(ret))
    /\ UNCHANGED <<headerWritten, csvOut, sinkState>>
    /\ SinkFrame

ClosesOnFinishEvenNil(k, outNil) == FinishCloses(k)

\* Finish of the three sinks: if outputChan != nil { close(outputChan) }.
ClosesOnFinish(k, outNil) == FinishCloses(k) /\ ~outNil

\* Finish (sql_writer.go 37-41, csv_writer.go 57-61, io_writer.go 32-36).
SinkFinish ==
    /\ sinkState = "open"
    /\ sinkState' = "finished"
    /\ sinkCloses' = IF ClosesOnFinish(sinkKind, sinkOutNil) THEN sinkCloses + 1 ELSE sinkCloses
    /\ UNCHANGED <<sinkIn, headerWritten, csvOut, sinkCalls, sinkSent, sinkKills, queryIn,
                   gorVars, sqVars, chanVars, runVars, stageIn, drvVars, concVars, insVars>>

\* ------------------------------------------------------- specifications

\* The goroutine of the query before GetDataFromSQLQuery is called.
QueryIdle ==
    /\ qpc = "idle"
    /\ rowIdx = 0
    /\ tableData = <<>>
    /\ dataChan = "unset"
    /\ emitted = <<>>
    /\ held = ErrEnvelope("")

\* A run that has just been started: empty channels, no error on the kill
\* signal, every driver waiting for its first record.
RunIdle ==
    /\ chans = [c \in Channels |-> <<>>]
    /\ sent = [c \in Channels |-> <<>>]
    /\ closes = [c \in Channels |-> 0]
    /\ killSent = <<>>
    /\ runErr = NoErr
    /\ aborted = FALSE
    /\ runState = "running"
    /\ panicked = FALSE
    /\ todo = [s \in Stages |-> <<>>]
    /\ finishes = [s \in Stages |-> 0]
    /\ procStarted = [s \in Stages |-> 0]
    /\ procReturned = [s \in Stages |-> 0]
    /\ recvd = <<>>
    /\ nextSeq = 1
    /\ workers = <<>>
    /\ buffer = <<>>
    /\ cursor = 1
    /\ emitting = <<>>
    /\ doneOrder = <<>>

InsertIdle ==
    /\ insData = Malformed
    /\ insOnDup = FALSE
    /\ insRes = InsertResult("idle", <<>>, <<>>, 0, 0)

\* No sink is run on its own.
SinkIdle ==
    /\ sinkKind = "SQLWriter"
    /\ sinkOutNil = TRUE
    /\ writeHeader = TRUE
    /\ sinkState = "idle"

\* A sink that has not been called yet.
SinkFresh ==
    /\ headerWritten = FALSE
    /\ csvOut = <<>>
    /\ sinkCalls = <<>>
    /\ sinkSent = <<>>
    /\ sinkCloses = 0
    /\ sinkKills = <<>>

\* The SQLQueryer stage called on its own, as Start or as HandleData and
\* then Finish, with a consumer and a kill receiver that are always ready.
QueryInit ==
    /\ rows \in SeqsUpTo(RowSet, MaxRows)
    /\ batchSize \in -1..MaxBatch
    /\ setupErr \in {NoErr, "query", "columns"}
    /\ readErrAt \in -1..Len(rows)
    /\ variant \in {"Start", "HandleData"}
    /\ QueryIdle
    /\ spc = "call"
    /\ RunIdle
    /\ kind = <<"SQLQueryer", "FuncTransformer", "SQLWriter">>
    /\ conc = 1
    /\ walkErr = FALSE
    /\ dpc = [s \in Stages |-> IF s = 1 THEN "proc" ELSE "recv"]
    /\ goPending = FALSE
    /\ InsertIdle
    /\ SinkIdle
    /\ SinkFresh

QueryNext ==
    \/ QNext
    \/ QSend
    \/ QClose
    \/ SQCall
    \/ SQKill
    \/ SQForward
    \/ SQRangeEnd
    \/ SQStartClose
    \/ SQFinish
    \/ Consume

SpecQuery == QueryInit /\ [][QueryNext]_vars

\* One SQLInsertData call on an envelope.
InsertInit ==
    /\ insData \in InsertInputs
    /\ insOnDup \in BOOLEAN
    /\ insRes = NotCalled
    /\ rows = <<>>
    /\ batchSize = 1
    /\ setupErr = NoErr
    /\ readErrAt = -1
    /\ variant = "HandleData"
    /\ QueryIdle
    /\ spc = "idle"
    /\ RunIdle
    /\ kind = <<"SQLQueryer", "FuncTransformer", "SQLWriter">>
    /\ conc = 1
    /\ walkErr = FALSE
    /\ dpc = [s \in Stages |-> "recv"]
    /\ goPending = FALSE
    /\ SinkIdle
    /\ SinkFresh

InsertNext == InsertCall

SpecInsert == InsertInit /\ [][InsertNext]_vars

\* A sink stage on its own: some ProcessData calls, one after the other,
\* then Finish.
SinkInit ==
    /\ sinkKind \in {"SQLWriter", "CSVWriter", "IoWriter"}
    /\ sinkOutNil \in BOOLEAN
    /\ writeHeader \in BOOLEAN
    /\ sinkKind # "CSVWriter" => writeHeader
    /\ sinkState = "open"
    /\ SinkFresh
    /\ InsertIdle
    /\ rows = <<>>
    /\ batchSize = 1
    /\ setupErr = NoErr
    /\ readErrAt = -1
    /\ variant = "HandleData"
    /\ QueryIdle
    /\ spc = "idle"
    /\ RunIdle
    /\ kind = <<"SQLQueryer", "FuncTransformer", "SQLWriter">>
    /\ conc = 1
    /\ walkErr = FALSE
    /\ dpc = [s \in Stages |-> "recv"]
    /\ goPending = FALSE

SinkNext ==
    \/ CSVWriterProcessData
    \/ SQLWriterProcessData
    \/ IoWriterHandleData
    \/ SinkFinish

SpecSink == SinkInit /\ [][SinkNext]_vars

\* The result set of the query when it feeds a pipeline: the first n rows
\* of a table with a key.
PipeTable(n) == [i \in 1..n |-> <<IntCell(i), BytesCell(i)>>]

\* A run of three stages: a source (SQLQueryer or SftpReader), a transformer
\* (FuncTransformer or SftpReader, sequential or with a pool) and a sink
\* (SQLWriter or IoWriter).
PipeInit ==
    /\ kind \in {<<k1, k2, k3>> :
                    k1 \in {"SQLQueryer", "SftpReader"},
                    k2 \in {"FuncTransformer", "SftpReader"},
                    k3 \in {"SQLWriter", "IoWriter"}}
    /\ conc \in 1..MaxK
    /\ walkErr \in BOOLEAN
    /\ walkErr => (kind[1] = "SftpReader" \/ kind[2] = "SftpReader")
    /\ rows \in {PipeTable(n) : n \in 0..PipeRows}
    /\ setupErr \in {NoErr, "query"}
    /\ kind[1] # "SQLQueryer" => (rows = <<>> /\ setupErr = NoErr)
    /\ batchSize = 1
    /\ readErrAt = -1
    /\ variant = "HandleData"
    /\ QueryIdle
    /\ spc = "idle"
    /\ RunIdle
    /\ dpc = [s \in Stages |-> "recv"]
    /\ goPending = TRUE
    /\ InsertIdle
    /\ SinkIdle
    /\ SinkFresh

PipeNext ==
    \/ \E s \in Stages : DriverRecv(s)
    \/ \E s \in Stages : ProcStep(s)
    \/ \E s \in Stages : ProcReturn(s)
    \/ \E s \in Stages : DriverEnd(s)
    \/ \E s \in Stages : DriverFinish(s)
    \/ \E s \in Stages : DriverClose(s)
    \/ \E s \in Stages : DriverAbort(s)
    \/ Admit
    \/ \E q \in DOMAIN workers : WorkerKill(q)
    \/ \E q \in DOMAIN workers : WorkerFinish(q)
    \/ EmitPop
    \/ EmitForward
    \/ QNext
    \/ QSend
    \/ QClose
    \/ SQCall
    \/ SQKill
    \/ SQForward
    \/ SQRangeEnd
    \/ RunDrain
    \/ RunReturnOK
    \/ RunReturnErr

Spec == PipeInit /\ [][PipeNext]_vars

\* ------------------------------------------------ properties of the query

Entries(rs) == [i \in 1..Len(rs) |-> Entry(rs[i])]

Min(a, b) == IF a < b THEN a ELSE b

\* ceil(n / size), for size > 0.
CeilDiv(n, size) == (n + size - 1) \div size

\* Rows (i-1)*size+1 .. min(i*size, n) of the first n rows.
BatchRows(n, size, i) == SubSeq(Entries(rows), (i - 1) * size + 1, Min(i * size, n))

IsPrefix(s, t) == Len(s) <= Len(t) /\ SubSeq(t, 1, Len(s)) = s

RECURSIVE ConcatObjs(_)
ConcatObjs(envs) ==
    IF envs = <<>> THEN <<>> ELSE Head(envs).objs \o ConcatObjs(Tail(envs))

ErrorCount(envs) == Cardinality({i \in 1..Len(envs) : envs[i].kind = "error"})

CleanRead == setupErr = NoErr /\ readErrAt = -1 /\ batchSize > 0

\* The envelopes the claim expects of a clean read: one array per batch.
ArrayBatches ==
    [i \in 1..CeilDiv(Len(rows), batchSize) |->
        ArrayEnvelope(BatchRows(Len(rows), batchSize, i))]

\* The same, with the error object in the place of a batch that cannot be
\* encoded.
EncodedBatches ==
    [i \in 1..CeilDiv(Len(rows), batchSize) |->
        LET b == BatchRows(Len(rows), batchSize, i)
        IN  IF \E j \in 1..Len(b) : \E c \in ColumnSet : b[j][c].t = "nan"
            THEN ErrEnvelope("encode") ELSE ArrayEnvelope(b)]

\* C6 as stated: a clean read of n rows with batch size B > 0 emits exactly
\* ceil(n/B) envelopes, each holding its B rows (the last the rest), in
\* result order, and the channel is closed after the last one.
C6_Original ==
    CleanRead =>
        /\ IsPrefix(emitted, ArrayBatches)
        /\ (dataChan = "closed" => emitted = ArrayBatches)
        /\ (qpc = "done" => dataChan = "closed")

\* C6 amended: a clean read of n rows with batch size B > 0 emits exactly
\* ceil(n/B) envelopes in batch order and closes the channel after the last;
\* envelope i holds rows (i-1)B+1 .. min(iB, n) in result order when that
\* batch encodes to JSON, and is the {"Error": message} object in its place
\* when it does not.
C6_BatchesEmitted ==
    CleanRead =>
        /\ IsPrefix(emitted, EncodedBatches)
        /\ Len(emitted) <= CeilDiv(Len(rows), batchSize)
        /\ (dataChan = "closed" => emitted = EncodedBatches)
        /\ (qpc = "done" => dataChan = "closed")

\* A clean read of encodable rows whose last batch is partial has been
\* streamed to the end, in more than one envelope.
C6_Witness ==
    /\ CleanRead
    /\ qpc = "done"
    /\ Len(emitted) >= 2
    /\ Len(rows) % batchSize # 0
    /\ ErrorCount(emitted) = 0
    /\ ConcatObjs(emitted) = Entries(rows)

MidStreamError == setupErr = NoErr /\ readErrAt >= 1

\* The rows read before the read error, and the batches sent before it.
ReadRows == SubSeq(Entries(rows), 1, readErrAt)

FullBatches == IF batchSize > 0 THEN readErrAt \div batchSize ELSE 0

Leftover == SubSeq(ReadRows, FullBatches * batchSize + 1, readErrAt)

Encodes(b) == ~ \E j \in 1..Len(b) : \E c \in ColumnSet : b[j][c].t = "nan"

\* C7 as stated: after a read error mid-stream the goroutine has emitted
\* exactly one error envelope, every row read is in an emitted envelope, the
\* partial batch goes out as one envelope after the error envelope, and the
\* channel is closed only after that.
C7_Original ==
    MidStreamError =>
        /\ (dataChan = "closed" =>
                /\ ErrorCount(emitted) = 1
                /\ ConcatObjs(emitted) = ReadRows
                /\ (Leftover # <<>> =>
                        /\ emitted[Len(emitted)] = ArrayEnvelope(Leftover)
                        /\ emitted[Len(emitted) - 1] = ErrEnvelope("read")))
        /\ (qpc = "done" => dataChan = "closed")

\* C7 amended: after a read error mid-stream the goroutine has emitted
\* exactly one {"Error": message} envelope for the read error, after the full
\* batches and before the partial batch; the partial batch, when it is not
\* empty, goes out as one envelope after it, and only then is the channel
\* closed; every row read is in an emitted envelope unless its batch could
\* not be encoded to JSON, in which case an {"Error": message} envelope is
\* emitted in that batch's place.
C7_ErrorThenFlush ==
    MidStreamError =>
        /\ (dataChan = "closed" =>
                /\ Len(emitted) = FullBatches + 1 + (IF Leftover # <<>> THEN 1 ELSE 0)
                /\ emitted[FullBatches + 1] = ErrEnvelope("read")
                /\ \A i \in 1..FullBatches :
                        LET b == BatchRows(readErrAt, batchSize, i)
                        IN  emitted[i] =
                                IF Encodes(b) THEN ArrayEnvelope(b) ELSE ErrEnvelope("encode")
                /\ (Leftover # <<>> =>
                        emitted[Len(emitted)] =
                            IF Encodes(Leftover) THEN ArrayEnvelope(Leftover)
                            ELSE ErrEnvelope("encode"))
                /\ (Encodes(ReadRows) =>
                        /\ ErrorCount(emitted) = 1
                        /\ ConcatObjs(emitted) = ReadRows))
        /\ (qpc = "done" => dataChan = "closed")

\* A read error after a full batch and one more row: the error envelope and
\* then the partial batch have gone out, and the channel is closed.
C7_Witness ==
    /\ MidStreamError
    /\ batchSize > 0
    /\ FullBatches >= 1
    /\ Leftover # <<>>
    /\ Encodes(ReadRows)
    /\ dataChan = "closed"
    /\ emitted[Len(emitted)] = ArrayEnvelope(Leftover)

\* C8: when the query or its column list fails, GetDataFromSQLQuery returns
\* no channel and starts no goroutine, no envelope is ever produced, and the
\* SQLQueryer stage delivers exactly that error on the kill signal and sends
\* nothing on its output channel.
C8_SetupFailure ==
    setupErr # NoErr =>
        /\ qpc = "idle"
        /\ emitted = <<>>
        /\ dataChan \in {"unset", "nil"}
        /\ (spc # "call" => dataChan = "nil")
        /\ sent[1] = <<>>
        /\ (spc \notin {"call", "kill"} => killSent = <<setupErr>>)

\* The column list failed and the stage has delivered the error.
C8_Witness ==
    /\ setupErr = "columns"
    /\ dataChan = "nil"
    /\ killSent = <<"columns">>
    /\ sent[1] = <<>>

\* C9 as stated: with the consumer and the kill receiver always ready, an
\* invocation of the stage never stops before it has returned and closed its
\* output exactly once.
C9_Original ==
    \/ ENABLED QueryNext
    \/ (spc = "finished" /\ closes[1] = 1)


\* --------------------------------------------- properties of the pipeline run

\* The sub-sequence a ProcessData call of the second stage emits on record d.
Emits(d) ==
    CASE kind[2] = "FuncTransformer" -> Recs(FuncTransformerOps(d))
      [] kind[2] = "SftpReader" ->
            LET ops == SftpReaderOps(d, walkErr)
            IN  Recs(SelectSeq(ops, LAMBDA o : ~IsKill(o)))
      [] OTHER -> <<>>

\* O1 followed by O2 ... followed by On, for the inputs taken so far.
RECURSIVE ExpectedOutput(_)
ExpectedOutput(inputs) ==
    IF inputs = <<>> THEN <<>>
    ELSE Emits(Head(inputs)) \o ExpectedOutput(Tail(inputs))

\* C1: while no abort is signalled, what the second stage (sequential, or
\* concurrent with any pool size) has sent downstream is a prefix of O1, O2,
\* ..., On for the inputs i1..in it took, in that order, and is the whole of
\* it once the stage has finished; the sequence does not depend on the pool
\* size or on which worker returns first.
C1_OutputInInputOrder ==
    ~aborted =>
        /\ IsPrefix(sent[2], ExpectedOutput(recvd))
        /\ (finishes[2] >= 1 => sent[2] = ExpectedOutput(recvd))

\* A pool of workers whose second call returned before the first, and whose
\* stage has finished with the records of both downstream in input order.
C1_Witness ==
    /\ conc > 1
    /\ kind[2] = "FuncTransformer"
    /\ ~aborted
    /\ Len(recvd) = 2
    /\ recvd[1] # recvd[2]
    /\ doneOrder = <<2, 1>>
    /\ finishes[2] = 1
    /\ sent[2] = <<foo(recvd[1]), foo(recvd[2])>>

\* C2: Finish of a stage is called at most once, only when its upstream is
\* closed and drained and every ProcessData call of the stage (every worker
\* of a pool included) has returned; no call starts after it; and a run that
\* returns without an abort has called every stage's Finish exactly once.
C2_FinishOnceAfterAll ==
    /\ \A s \in Stages :
        /\ finishes[s] <= 1
        /\ (finishes[s] >= 1 \/ dpc[s] = "finish") =>
                /\ InputClosed(s)
                /\ procStarted[s] = procReturned[s]
                /\ (IsConcurrentStage(s) => DOMAIN workers = {})
                /\ dpc[s] # "proc"
    /\ (runState = "returned" /\ ~aborted) => \A s \in Stages : finishes[s] = 1

\* A run with a pool in its second stage has returned without an abort:
\* every stage has taken records and its Finish has been called once.
C2_Witness ==
    /\ runState = "returned"
    /\ ~aborted
    /\ conc > 1
    /\ procReturned[2] >= 2
    /\ procReturned[3] >= 2
    /\ \A s \in Stages : finishes[s] = 1

\* C3: once errors are delivered on the kill signal, the error the run holds,
\* and returns, is the first one delivered; a later one never replaces it.
C3_FirstErrorWins ==
    killSent # <<>> =>
        /\ aborted
        /\ runErr = killSent[1]

\* Two stages have delivered different errors and the run has returned.
C3_Witness ==
    /\ runState = "returned"
    /\ Len(killSent) >= 2
    /\ killSent[2] # killSent[1]
    /\ runErr = killSent[1]

\* Every driver has left its loop.
AllExited == AllDrivers({"done", "exited"}) /\ DOMAIN workers = {}

\* C4 as stated: once a stage has signalled abort, the run does not stop
\* before it has returned that error, and when it returns every driver and
\* every worker has exited.
C4_Original ==
    (aborted /\ ~panicked) =>
        /\ (runState = "returned" => (AllExited /\ runErr = killSent[1]))
        /\ (runState = "returned" \/ ENABLED PipeNext)

\* C5 as stated: the output channel of a non-terminal stage is closed at most
\* once and nothing is sent on it after the close (either would panic), and
\* a run that returns without an abort has closed each of them once.
C5_Original ==
    /\ ~panicked
    /\ \A c \in Channels : closes[c] <= 1
    /\ (runState = "returned" /\ ~aborted) => \A c \in Channels : closes[c] = 1

\* ----------------------------------------------- properties of the SQL sink

\* The column names in the statement text, in the order they are listed.
StmtCols(stmt) ==
    LET toks == SelectSeq(stmt, LAMBDA x : x.t = "col")
    IN  [i \in 1..Len(toks) |-> toks[i].k]

\* The statement text after VALUES, up to the upsert clause.
StmtGroups(stmt) ==
    LET from == CHOOSE i \in 1..Len(stmt) : stmt[i].t = "VALUES"
        upto == IF \E i \in 1..Len(stmt) : stmt[i].t = "ON DUPLICATE KEY UPDATE"
                THEN (CHOOSE i \in 1..Len(stmt) : stmt[i].t = "ON DUPLICATE KEY UPDATE") - 1
                ELSE Len(stmt)
    IN  SubSeq(stmt, from + 1, upto)

\* cs lists the keys of the object once each, in ascending byte order.
IsSortedKeysOf(cs, object) ==
    /\ Len(cs) = Cardinality(DOMAIN object)
    /\ {cs[i] : i \in 1..Len(cs)} = DOMAIN object
    /\ \A i, j \in 1..Len(cs) : i < j => StringLess(cs[i], cs[j])

\* groups is n groups "(?,...,?)" of m placeholders each, separated by ",".
IsPlaceholderGroups(groups, n, m) ==
    /\ Len(groups) = n * (2 * m + 1) + (n - 1)
    /\ \A r \in 0..(n - 1) :
        LET base == r * (2 * m + 2)
        IN  /\ groups[base + 1].t = "("
            /\ \A c \in 1..m : groups[base + 2 * c].t = "?"
            /\ \A c \in 1..(m - 1) : groups[base + 2 * c + 1].t = ","
            /\ groups[base + 2 * m + 1].t = ")"
            /\ (r > 0 => groups[base].t = ",")

\* The objects of the call's batch.
InsObjects ==
    IF insData.t = "object" THEN <<insData.obj>>
    ELSE [i \in 1..Len(insData.elems) |-> insData.elems[i].obj]

\* The call got a non-empty batch of objects that all have the same keys.
UniformBatch ==
    /\ insData.t \in {"object", "array"}
    /\ InsObjects # <<>>
    /\ insData.t = "array" => \A i \in 1..Len(insData.elems) : insData.elems[i].t = "object"
    /\ \A i \in 1..Len(InsObjects) : DOMAIN InsObjects[i] = DOMAIN InsObjects[1]

\* C10: for a non-empty batch of objects with the same key set, the statement
\* lists the sorted keys of the first object, has one placeholder group per
\* object with one placeholder per column, and the value bound at position
\* r*|columns|+c is objects[r][columns[c]], in the column order of the text.
C10_SortedColumnsAndValues ==
    (UniformBatch /\ insRes.ret \notin {"pending", "idle"}) =>
        LET cols == StmtCols(insRes.stmt)
            n == Len(InsObjects)
            m == Len(cols)
        IN  /\ IsSortedKeysOf(cols, InsObjects[1])
            /\ IsPlaceholderGroups(StmtGroups(insRes.stmt), n, m)
            /\ insRes.execs = 1 =>
                /\ Len(insRes.vals) = n * m
                /\ \A r \in 0..(n - 1) : \A c \in 0..(m - 1) :
                        insRes.vals[r * m + c + 1] = InsObjects[r + 1][cols[c + 1]]

\* [{"b":1,"a":2},{"b":3,"a":4}] has been inserted: columns (a,b), two
\* groups, values [2,1,4,3].
C10_Witness ==
    /\ insData = ArrVal(<<ObjVal([b |-> FloatCell(1), a |-> FloatCell(2)]),
                          ObjVal([b |-> FloatCell(3), a |-> FloatCell(4)])>>)
    /\ insRes.ret = "nil"
    /\ StmtCols(insRes.stmt) = <<"a", "b">>
    /\ insRes.vals = <<FloatCell(2), FloatCell(1), FloatCell(4), FloatCell(3)>>

\* ------------------------------------------ more properties of the SQL sink

\* The decoded value is a single object or an array of objects.
IsObjectBatch ==
    \/ insData.t = "object"
    \/ /\ insData.t = "array"
       /\ \A i \in 1..Len(insData.elems) : insData.elems[i].t = "object"

\* What a call returns as an error value.
ErrorRets == {"parse", "unsupported", "prepare", "exec", "lastid", "rowcnt"}

Called == insRes.ret \notin {"pending", "idle"}

\* C11 as stated: on an envelope that decodes to something that is neither
\* an object nor an array of objects (a scalar, an array of scalars, an array
\* with an element that is no object) the call returns an error value and
\* has prepared and executed nothing.
C11_Original ==
    (Called /\ insData.t # "malformed" /\ ~IsObjectBatch) =>
        /\ insRes.ret \in ErrorRets
        /\ insRes.prepares = 0
        /\ insRes.execs = 0

\* C12: a call on a valid batch prepares at most once and executes at most
\* once; after a failed Prepare nothing is executed; a failed Prepare or Exec
\* is what the call returns, and SQLWriter.ProcessData sends what the call
\* returns on the kill signal when it is an error, and nothing when it is nil.
C12_OneRoundTrip ==
    (Called /\ IsObjectBatch /\ InsObjects # <<>>) =>
        /\ insRes.prepares = 1
        /\ insRes.execs <= 1
        /\ (insRes.ret = "prepare" => insRes.execs = 0)
        /\ (insRes.execs = 0 => insRes.ret = "prepare")
        /\ insRes.ret \in ErrorRets \cup {"nil"}
        /\ (insRes.ret \in ErrorRets => SQLWriterOps(insRes.ret) = <<KillOp(insRes.ret)>>)
        /\ (insRes.ret = "nil" => SQLWriterOps(insRes.ret) = <<>>)

\* Prepare failed on a batch of two objects: one Prepare, no Exec, and the
\* error is what the stage sends on the kill signal.
C12_Witness ==
    /\ IsObjectBatch
    /\ Len(InsObjects) = 2
    /\ insRes.ret = "prepare"
    /\ insRes.prepares = 1
    /\ insRes.execs = 0
    /\ SQLWriterOps(insRes.ret) = <<KillOp("prepare")>>

\* The text after the placeholder groups.
StmtTail(stmt) ==
    LET from == CHOOSE i \in 1..Len(stmt) : stmt[i].t = "VALUES"
    IN  SubSeq(stmt, from + 1 + Len(StmtGroups(stmt)), Len(stmt))

\* C14: the statement ends with the upsert clause exactly when upsert is
\* enabled; the clause assigns each column of the column list once, in the
\* order of the list, to the inserted value; without upsert the statement
\* ends with the last placeholder group.
C14_UpsertClause ==
    (Called /\ insRes.prepares = 1) =>
        LET cols == StmtCols(insRes.stmt)
            tail == StmtTail(insRes.stmt)
            n == Len(InsObjects)
            m == Len(cols)
        IN  /\ IsPlaceholderGroups(StmtGroups(insRes.stmt), n, m)
            /\ (~insOnDup => tail = <<>>)
            /\ (insOnDup =>
                    /\ Len(tail) = 2 * m
                    /\ tail[1].t = "ON DUPLICATE KEY UPDATE"
                    /\ \A c \in 1..m : tail[2 * c] = Tok("assign", cols[c])
                    /\ \A c \in 1..(m - 1) : tail[2 * c + 1].t = ",")

\* An upsert over three columns has been built: the clause assigns B, a, ab
\* in the order of the column list.
C14_Witness ==
    /\ insOnDup
    /\ insRes.ret = "nil"
    /\ StmtCols(insRes.stmt) = <<"B", "a", "ab">>
    /\ Len(StmtTail(insRes.stmt)) = 6
    /\ StmtTail(insRes.stmt)[6] = Tok("assign", "ab")

\* ------------------------------------------ more properties of the query

Unbatched == setupErr = NoErr /\ readErrAt = -1 /\ batchSize <= 0 /\ Len(rows) >= 1

\* C13 as stated: with a batch size B <= 0 and n >= 1 rows read without
\* error, nothing is emitted while rows are read, and at the end of the
\* result exactly one envelope holding all n rows in order goes out before
\* the channel is closed.
C13_Original ==
    Unbatched =>
        /\ (rowIdx < Len(rows) => emitted = <<>>)
        /\ (dataChan = "closed" => emitted = <<ArrayEnvelope(Entries(rows))>>)
        /\ (qpc = "done" => dataChan = "closed")

\* C13 amended: with B <= 0 and n >= 1 rows read without error, nothing is
\* emitted while rows are read and exactly one envelope goes out at the end
\* of the result, before the close: the n rows in order when they encode to
\* JSON, the {"Error": message} object in their place when they do not.
C13_OneFlushAtEnd ==
    Unbatched =>
        /\ (rowIdx < Len(rows) => emitted = <<>>)
        /\ (qpc = "next" => emitted = <<>>)
        /\ Len(emitted) <= 1
        /\ (dataChan = "closed" =>
                emitted = << IF Encodes(Entries(rows))
                             THEN ArrayEnvelope(Entries(rows))
                             ELSE ErrEnvelope("encode") >>)
        /\ (qpc = "done" => dataChan = "closed")

\* Three encodable rows read with batching disabled: one envelope holding
\* the three, and the channel is closed.
C13_Witness ==
    /\ Unbatched
    /\ Len(rows) = 3
    /\ Encodes(Entries(rows))
    /\ dataChan = "closed"
    /\ emitted = <<ArrayEnvelope(Entries(rows))>>

\* C18 as stated: on every envelope that decodes, the call ends by returning
\* nil or an error value; on an empty array it returns without building,
\* preparing or executing a statement.
C18_Original ==
    (Called /\ insData.t # "malformed") =>
        /\ insRes.ret \in ErrorRets \cup {"nil"}
        /\ (insData = ArrVal(<<>>) =>
                /\ insRes.stmt = <<>>
                /\ insRes.prepares = 0
                /\ insRes.execs = 0)

\* ------------------------------------- more properties of the pipeline run

\* C15: once the kill signal carries an error, no ProcessData call begins in
\* any stage; the calls in flight go on.
C15_NoAdmissionAfterAbort ==
    [][aborted => procStarted' = procStarted]_vars

\* The kill signal carries an error while a record waits at a driver that
\* is between two calls, and a call is still in flight in another stage.
C15_Witness ==
    /\ aborted
    /\ ~panicked
    /\ \E s \in Stages : dpc[s] = "recv" /\ HasInput(s)
    /\ \E s \in Stages : dpc[s] = "proc" /\ procStarted[s] > procReturned[s]

C17_SinksSendNothing ==
    sinkState # "idle" =>
        /\ sinkSent = <<>>
        /\ (sinkOutNil => sinkCloses = 0)
        /\ (sinkState # "finished" => sinkCloses = 0)
        /\ ((~sinkOutNil /\ sinkState = "finished") => sinkCloses = 1)

\* A CSVWriter with an output channel has written rows in two calls and has
\* been finished: nothing sent, one close.
C17_Witness ==
    /\ sinkKind = "CSVWriter"
    /\ ~sinkOutNil
    /\ sinkState = "finished"
    /\ Len(sinkCalls) = 2
    /\ csvOut # <<>>
    /\ sinkSent = <<>>
    /\ sinkCloses = 1

\* The objects of the envelopes of the calls made, in order.
RECURSIVE CalledObjects(_)
CalledObjects(calls) ==
    IF calls = <<>> THEN <<>>
    ELSE ObjectsFromJSON(Head(calls)).objs \o CalledObjects(Tail(calls))

HeaderIndexes == {i \in 1..Len(csvOut) : csvOut[i].hdr}

DataRows == SelectSeq(csvOut, LAMBDA r : ~r.hdr)

CellSet(row) == {row.cells[c] : c \in 1..Len(row.cells)}

\* No write of the csv.Writer has failed.
WritesOK == \A i \in 1..Len(sinkKills) : sinkKills[i] # "write"

\* C19 as stated: over the calls made on a CSVWriter, the header row is
\* written exactly once when WriteHeader is set, in the first call and before
\* any data row, and never when it is not set; and the calls write one data
\* row per object of their envelopes, in envelope order.
C19_Original ==
    (sinkKind = "CSVWriter" /\ WritesOK) =>
        /\ ((writeHeader /\ sinkCalls # <<>>) => HeaderIndexes = {1})
        /\ (~writeHeader => HeaderIndexes = {})
        /\ Len(DataRows) = Len(CalledObjects(sinkCalls))
        /\ \A j \in 1..Len(DataRows) :
                j <= Len(CalledObjects(sinkCalls)) =>
                    CellSet(DataRows[j]) =
                        {Sprintf(CalledObjects(sinkCalls)[j][k]) :
                            k \in DOMAIN CalledObjects(sinkCalls)[j]}

\* C20 as stated: for objects with the same key set, the value a CSVWriter
\* writes in position c of a data row is the value of the key it wrote in
\* position c of the header row, whatever order the maps are ranged over.
C20_Original ==
    (/\ sinkKind = "CSVWriter"
     /\ WritesOK
     /\ sinkState # "panicked"
     /\ writeHeader
     /\ csvOut # <<>>
     /\ \A j \in 1..Len(CalledObjects(sinkCalls)) :
            DOMAIN CalledObjects(sinkCalls)[j] = DOMAIN CalledObjects(sinkCalls)[1]) =>
        \A j \in 1..Len(DataRows) : \A c \in 1..Len(DataRows[j].cells) :
            DataRows[j].cells[c] = Sprintf(CalledObjects(sinkCalls)[j][csvOut[1].cells[c]])

====
